---- MODULE Spec2Model ----
(***************************************************************************)
(* Model of hardware/schematics/generate_schematic_pdf.py:                 *)
(* create_schematic_pdf(filename) draws a fixed layout on a reportlab      *)
(* canvas, saves it and prints a confirmation line.                        *)
(*                                                                         *)
(* Lengths are exact integers in units of 1/100 mm (inch = 25.4 mm), so    *)
(* every coordinate of the source (multiples of 0.05 inch, and the A4 size *)
(* 210 mm x 297 mm) is represented without rounding.  Colour components    *)
(* are in tenths (0.5 is 5).  Characters outside ASCII in the drawn        *)
(* strings are transliterated (box-drawing glyphs to | + -, the ohm sign   *)
(* to Ohm, the check mark to [OK]); the empty spacer lines stay empty.     *)
(***************************************************************************)
EXTENDS Integers, Sequences, FiniteSets, TLC

\* number of calls of create_schematic_pdf that one behaviour makes
MaxCalls == 2

\* paths the caller may pass as filename (the first is the one __main__
\* passes), and those among them the process may not write to
Paths == {"pb86_8button_schematic.pdf", "/readonly/schematic.pdf"}
Unwritable == {"/readonly/schematic.pdf"}

---------------------------------------------------------------------------
\* reportlab.lib.units / reportlab.lib.pagesizes
inch == 2540
mm == 100
A4 == <<210 * mm, 297 * mm>>
letter == <<(85 * inch) \div 10, 11 * inch>>

\* n/100 inch, exact for the multiples of 0.05 inch the source uses
In(n) == (n * inch) \div 100

\* c = canvas.Canvas(filename, pagesize=A4); width, height = A4
\* (pagesizeLetter: the canvas opened in the other imported format)
pagesizeLetter == letter
pagesize == A4
width == A4[1]
height == A4[2]

\* reportlab.lib.colors.black and the two setFillColorRGB arguments
black == <<0, 0, 0>>
Green == <<0, 5, 0>>
Black == <<0, 0, 0>>

Font(name, size) == [name |-> name, size |-> size]

\* state of a fresh canvas.Canvas: Helvetica 12, black fill and stroke
InitFont == Font("Helvetica", 12)

---------------------------------------------------------------------------
\* the literal lists of body strings
overview == <<
    "This circuit implements 8 PB86 push buttons with built-in LEDs.",
    "",
    "Components:",
    "  - MCP23017: I2C I/O Expander (button inputs)",
    "  - 74HC595: 8-bit Shift Register (LED outputs)",
    "  - 8x PB86: Push buttons with LEDs",
    "  - 8x 150Ohm: Current limiting resistors",
    "",
    "Interfaces:",
    "  - I2C: SDA, SCL (MCP23017 control)",
    "  - SPI: DATA, LATCH, CLOCK (74HC595 control)" >>

button_circuit == <<
    "     +5V",
    "      |",
    "      |  (100kOhm internal pull-up)",
    "      |",
    "      +------- GPB0 (MCP23017)",
    "      |",
    "     -+-  PB86 Button",
    "      |  (Pins 1-2: NO switch)",
    "      |",
    "     GND" >>

led_circuit == <<
    "      QA (74HC595)",
    "       |",
    "       |",
    "      -+-  R1 (150Ohm)",
    "       |",
    "       |",
    "      -+-  LED1 Anode (+)",
    "       |",
    "      -+-  LED1 Cathode (-)",
    "       |",
    "      GND" >>

component_values == <<
    "Resistors:",
    "  R1-R8: 150Ohm, 1/4W, 5% (current limiting)",
    "  Pull-ups: 100kOhm (MCP23017 internal)",
    "",
    "LEDs:",
    "  D1-D8: Red LED, 20mA max, Vf ~ 2.0V",
    "",
    "ICs:",
    "  MCP23017: I2C I/O Expander (DIP-28)",
    "  74HC595: 8-bit Shift Register (DIP-16)" >>

circuit_analysis == <<
    "LED Current:",
    "  I_LED = (V_CC - V_LED) / R_total",
    "  I_LED = (5V - 2V) / 200Ohm = 15mA [OK]",
    "",
    "Power Consumption:",
    "  Per LED: 15mA",
    "  All LEDs ON: 8 x 15mA = 120mA",
    "  Total: ~120.4mA [OK]",
    "",
    "Button Detection:",
    "  Released: 5V (through pull-up)",
    "  Pressed: 0V (connected to GND)" >>

validation == <<
    "[OK] SPICE simulation completed",
    "[OK] LED current: 15mA (safe)",
    "[OK] Power consumption: ~120mA (acceptable)",
    "[OK] Button detection: 5V/0V logic (reliable)",
    "[OK] Circuit ready for breadboard prototype" >>

next_steps == <<
    "1. Build breadboard prototype",
    "2. Test button detection and LED control",
    "3. Write firmware for MCP23017/74HC595",
    "4. Design PCB layout in KiCad" >>

---------------------------------------------------------------------------
\* The seven blocks "# ... Section" of the source, one record per block: the
\* heading string and its font, the font and line height of the body loop,
\* the list the loop runs over, and the setFillColorRGB calls the block makes
\* before its loop (fillBefore) and after it (fillAfter); <<>> when the block
\* makes no such call.
Section(h, bf, lh, ls, fb, fa) ==
    [heading |-> h, headFont |-> Font("Helvetica-Bold", 14), bodyFont |-> bf,
     lineHeight |-> lh, lines |-> ls, fillBefore |-> fb, fillAfter |-> fa]

\* the Component Values and Circuit Analysis blocks in the other order
SectionsSwapped == <<
    Section("CIRCUIT OVERVIEW", Font("Helvetica", 10), In(25), overview, <<>>, <<>>),
    Section("BUTTON INPUT CIRCUIT", Font("Courier", 10), In(20), button_circuit, <<>>, <<>>),
    Section("LED OUTPUT CIRCUIT", Font("Courier", 10), In(20), led_circuit, <<>>, <<>>),
    Section("CIRCUIT ANALYSIS", Font("Helvetica", 10), In(25), circuit_analysis, <<>>, <<>>),
    Section("COMPONENT VALUES", Font("Helvetica", 10), In(25), component_values, <<>>, <<>>),
    Section("VALIDATION STATUS", Font("Helvetica", 10), In(25), validation, <<Green>>, <<Black>>),
    Section("NEXT STEPS", Font("Helvetica", 10), In(25), next_steps, <<>>, <<>>) >>

\* the Validation Status block without its closing setFillColorRGB(0, 0, 0)
SectionsNoReset == <<
    Section("CIRCUIT OVERVIEW", Font("Helvetica", 10), In(25), overview, <<>>, <<>>),
    Section("BUTTON INPUT CIRCUIT", Font("Courier", 10), In(20), button_circuit, <<>>, <<>>),
    Section("LED OUTPUT CIRCUIT", Font("Courier", 10), In(20), led_circuit, <<>>, <<>>),
    Section("COMPONENT VALUES", Font("Helvetica", 10), In(25), component_values, <<>>, <<>>),
    Section("CIRCUIT ANALYSIS", Font("Helvetica", 10), In(25), circuit_analysis, <<>>, <<>>),
    Section("VALIDATION STATUS", Font("Helvetica", 10), In(25), validation, <<Green>>, <<>>),
    Section("NEXT STEPS", Font("Helvetica", 10), In(25), next_steps, <<>>, <<>>) >>

Sections == <<
    Section("CIRCUIT OVERVIEW", Font("Helvetica", 10), In(25), overview, <<>>, <<>>),
    Section("BUTTON INPUT CIRCUIT", Font("Courier", 10), In(20), button_circuit, <<>>, <<>>),
    Section("LED OUTPUT CIRCUIT", Font("Courier", 10), In(20), led_circuit, <<>>, <<>>),
    Section("COMPONENT VALUES", Font("Helvetica", 10), In(25), component_values, <<>>, <<>>),
    Section("CIRCUIT ANALYSIS", Font("Helvetica", 10), In(25), circuit_analysis, <<>>, <<>>),
    Section("VALIDATION STATUS", Font("Helvetica", 10), In(25), validation, <<Green>>, <<Black>>),
    Section("NEXT STEPS", Font("Helvetica", 10), In(25), next_steps, <<>>, <<>>) >>

NSections == Len(Sections)

\* cursor of the first heading, gap before each later heading, gap after a heading
FirstHeadingY == height - In(220)
HeadingGap == In(30)
\* the gap after a heading taken as small as the gap before one
BodyGapShort == In(30)
BodyGap == In(40)

\* left margins of headings/title/footer and of body lines; footer baseline
MarginX == In(100)
BodyX == In(120)
FooterY == In(50)
\* the page number placed against the width of the letter format
PageNoXLetter == letter[1] - In(250)
PageNoX == width - In(250)

---------------------------------------------------------------------------
VARIABLES
    pc,        \* position in create_schematic_pdf: "idle" before/after a call
    filename,  \* the argument of the running call
    sec,       \* section block being executed, 1..NSections
    idx,       \* position of the body loop in the block's list
    y,         \* the layout cursor (local variable y)
    font,      \* canvas state: current font
    fill,      \* canvas state: current fill colour
    stroke,    \* canvas state: current stroke colour
    lineWidth, \* canvas state: current line width
    code,      \* canvas: drawing commands of the page being built
    pages,     \* canvas: pages finished so far, each with its size and commands
    fs,        \* file system: path -> document written there, or NoFile
    stdout,    \* lines printed so far
    calls,     \* number of calls started
    saves,     \* number of c.save() calls that completed in the running call
    prints     \* number of print() calls made by the running call

vars == <<pc, filename, sec, idx, y, font, fill, stroke, lineWidth, code, pages,
          fs, stdout, calls, saves, prints>>

\* a document is the sequence of its pages; no document at a path is <<>>
NoFile == <<>>
NoPath == ""

\* one canvas command, with the graphics state it is issued in.  kind/sec/idx
\* say which statement of the source issued it: "title", "subtitle",
\* "divider", "heading", "body" or "footer", and for a heading or body line
\* the section block and the position in its list.
DrawString(f, col, x, yy, text, kind, s, i) ==
    [op |-> "drawString", x |-> x, y |-> yy, x2 |-> x, y2 |-> yy, text |-> text,
     font |-> f, fill |-> col, kind |-> kind, sec |-> s, idx |-> i]

Line(f, col, x1, y1, xx2, yy2) ==
    [op |-> "line", x |-> x1, y |-> y1, x2 |-> xx2, y2 |-> yy2, text |-> "",
     font |-> f, fill |-> col, kind |-> "divider", sec |-> 0, idx |-> 0]

\* Canvas.showPage: the commands issued so far become a finished page
ShowPage(ps, cmds) == Append(ps, [size |-> pagesize, code |-> cmds])

Init ==
    /\ pc = "idle"
    /\ filename = NoPath
    /\ sec = 0
    /\ idx = 0
    /\ y = 0
    /\ font = InitFont
    /\ fill = black
    /\ stroke = black
    /\ lineWidth = 1
    /\ code = <<>>
    /\ pages = <<>>
    /\ fs = [p \in Paths |-> NoFile]
    /\ stdout = <<>>
    /\ calls = 0
    /\ saves = 0
    /\ prints = 0

---------------------------------------------------------------------------
\* c = canvas.Canvas(filename, pagesize=A4); width, height = A4
\* A fresh canvas per call; y is not bound yet (0 stands for that).
\* (create_schematic_pdf_reuse: one canvas kept across calls instead)
create_schematic_pdf_reuse(f) ==
    /\ pc \in {"idle", "raised"}
    /\ calls < MaxCalls
    /\ calls' = calls + 1
    /\ filename' = f
    /\ pc' = "title"
    /\ sec' = 0 /\ idx' = 0 /\ y' = 0
    /\ saves' = 0 /\ prints' = 0
    /\ UNCHANGED <<font, fill, stroke, lineWidth, code, pages, fs, stdout>>

create_schematic_pdf(f) ==
    /\ pc \in {"idle", "raised"}
    /\ calls < MaxCalls
    /\ calls' = calls + 1
    /\ filename' = f
    /\ pc' = "title"
    /\ sec' = 0 /\ idx' = 0 /\ y' = 0
    /\ font' = InitFont /\ fill' = black /\ stroke' = black /\ lineWidth' = 1
    /\ code' = <<>> /\ pages' = <<>>
    /\ saves' = 0 /\ prints' = 0
    /\ UNCHANGED <<fs, stdout>>

\* the Canvas constructor raises: nothing catches it, the call ends
canvas_raises(f) ==
    /\ pc \in {"idle", "raised"}
    /\ calls < MaxCalls
    /\ calls' = calls + 1
    /\ filename' = f
    /\ pc' = "raised"
    /\ sec' = 0 /\ idx' = 0 /\ y' = 0
    /\ font' = InitFont /\ fill' = black /\ stroke' = black /\ lineWidth' = 1
    /\ code' = <<>> /\ pages' = <<>>
    /\ saves' = 0 /\ prints' = 0
    /\ UNCHANGED <<fs, stdout>>

\* Title
draw_title ==
    /\ pc = "title"
    /\ font' = Font("Helvetica-Bold", 16)
    /\ code' = Append(code, DrawString(font', fill, MarginX, height - In(100),
                        "PB86 8-Button Circuit Schematic", "title", 0, 0))
    /\ pc' = "subtitle"
    /\ UNCHANGED <<filename, sec, idx, y, fill, stroke, lineWidth, pages, fs,
                   stdout, calls, saves, prints>>

\* Subtitle
draw_subtitle ==
    /\ pc = "subtitle"
    /\ font' = Font("Helvetica", 12)
    /\ code' = code \o <<
         DrawString(font', fill, MarginX, height - In(130),
             "SPICE Validated: LED current 15mA, Power 120mA total", "subtitle", 0, 1),
         DrawString(font', fill, MarginX, height - In(150),
             "Date: January 16, 2026", "subtitle", 0, 2) >>
    /\ pc' = "divider"
    /\ UNCHANGED <<filename, sec, idx, y, fill, stroke, lineWidth, pages, fs,
                   stdout, calls, saves, prints>>

\* Divider line
draw_divider ==
    /\ pc = "divider"
    /\ stroke' = black
    /\ lineWidth' = 2
    /\ code' = Append(code, Line(font, fill, MarginX, height - In(170),
                                 width - In(100), height - In(170)))
    /\ sec' = 1
    /\ pc' = "heading"
    /\ UNCHANGED <<filename, idx, y, font, fill, pages, fs, stdout, calls,
                   saves, prints>>

\* the first three statements of a section block: place the cursor, select
\* the heading font, draw the heading
draw_heading ==
    /\ pc = "heading"
    /\ y' = IF sec = 1 THEN FirstHeadingY ELSE y - HeadingGap
    /\ font' = Sections[sec].headFont
    /\ code' = Append(code, DrawString(font', fill, MarginX, y',
                                       Sections[sec].heading, "heading", sec, 0))
    /\ pc' = "begin_body"
    /\ UNCHANGED <<filename, sec, idx, fill, stroke, lineWidth, pages, fs,
                   stdout, calls, saves, prints>>

\* y -= 0.4*inch; c.setFont(...); [c.setFillColorRGB(...)]; the list literal
\* (begin_body_keep_font: the same without the setFont call)
begin_body_keep_font ==
    /\ pc = "begin_body"
    /\ y' = y - BodyGap
    /\ fill' = IF Sections[sec].fillBefore # <<>>
               THEN Sections[sec].fillBefore[1] ELSE fill
    /\ idx' = 1
    /\ pc' = "body"
    /\ UNCHANGED <<filename, sec, font, stroke, lineWidth, code, pages, fs,
                   stdout, calls, saves, prints>>

begin_body ==
    /\ pc = "begin_body"
    /\ y' = y - BodyGap
    /\ font' = Sections[sec].bodyFont
    /\ fill' = IF Sections[sec].fillBefore # <<>>
               THEN Sections[sec].fillBefore[1] ELSE fill
    /\ idx' = 1
    /\ pc' = "body"
    /\ UNCHANGED <<filename, sec, stroke, lineWidth, code, pages, fs, stdout,
                   calls, saves, prints>>

\* one iteration of "for line in <list>": drawString, then the decrement
draw_body_line ==
    /\ pc = "body"
    /\ idx <= Len(Sections[sec].lines)
    /\ code' = Append(code, DrawString(font, fill, BodyX, y,
                                       Sections[sec].lines[idx], "body", sec, idx))
    /\ y' = y - Sections[sec].lineHeight
    /\ idx' = idx + 1
    /\ UNCHANGED <<pc, filename, sec, font, fill, stroke, lineWidth, pages, fs,
                   stdout, calls, saves, prints>>

\* the loop is exhausted: [c.setFillColorRGB(0, 0, 0)], on to the next block
end_body ==
    /\ pc = "body"
    /\ idx > Len(Sections[sec].lines)
    /\ fill' = IF Sections[sec].fillAfter # <<>>
               THEN Sections[sec].fillAfter[1] ELSE fill
    /\ IF sec < NSections
       THEN sec' = sec + 1 /\ pc' = "heading"
       ELSE sec' = sec /\ pc' = "footer"
    /\ UNCHANGED <<filename, idx, y, font, stroke, lineWidth, code, pages, fs,
                   stdout, calls, saves, prints>>

\* Footer
draw_footer ==
    /\ pc = "footer"
    /\ font' = Font("Helvetica", 8)
    /\ code' = code \o <<
         DrawString(font', fill, MarginX, FooterY,
             "Generated with Claude Code via Happy Engineering", "footer", 0, 1),
         DrawString(font', fill, PageNoX, FooterY, "Page 1 of 1", "footer", 0, 2) >>
    /\ pc' = "save"
    /\ UNCHANGED <<filename, sec, idx, y, fill, stroke, lineWidth, pages, fs,
                   stdout, calls, saves, prints>>

\* c.save() succeeds: Canvas.save ends the page that holds commands, then
\* writes the document to filename
save ==
    /\ pc = "save"
    /\ filename \notin Unwritable
    /\ pages' = IF code # <<>> THEN ShowPage(pages, code) ELSE pages
    /\ code' = <<>>
    /\ fs' = [fs EXCEPT ![filename] = pages']
    /\ saves' = saves + 1
    /\ pc' = "print"
    /\ UNCHANGED <<filename, sec, idx, y, font, fill, stroke, lineWidth, stdout,
                   calls, prints>>

\* c.save() raises (unwritable path, disk full): no try statement encloses
\* it, so the call ends there and line 200 is not reached
\* (save_raises_caught: the error swallowed, execution going on to line 200)
save_raises_caught ==
    /\ pc = "save"
    /\ pc' = "print"
    /\ UNCHANGED <<filename, sec, idx, y, font, fill, stroke, lineWidth, code,
                   pages, fs, stdout, calls, saves, prints>>

save_raises ==
    /\ pc = "save"
    /\ pc' = "raised"
    /\ UNCHANGED <<filename, sec, idx, y, font, fill, stroke, lineWidth, code,
                   pages, fs, stdout, calls, saves, prints>>

\* print(f"PDF created: {filename}"), and the function returns
print_created ==
    /\ pc = "print"
    /\ stdout' = Append(stdout, "PDF created: " \o filename)
    /\ prints' = prints + 1
    /\ pc' = "idle"
    /\ UNCHANGED <<filename, sec, idx, y, font, fill, stroke, lineWidth, code,
                   pages, fs, calls, saves>>

Next ==
    \/ \E f \in Paths : create_schematic_pdf(f)
    \/ \E f \in Paths : canvas_raises(f)
    \/ draw_title
    \/ draw_subtitle
    \/ draw_divider
    \/ draw_heading
    \/ begin_body
    \/ draw_body_line
    \/ end_body
    \/ draw_footer
    \/ save
    \/ save_raises
    \/ print_created

Spec == Init /\ [][Next]_vars

---------------------------------------------------------------------------
\* Everything the running (or last) call has drawn, in the order drawn:
\* the commands of the finished pages, then those of the page being built.
RECURSIVE PagesCode(_)
PagesCode(ps) == IF ps = <<>> THEN <<>> ELSE ps[1].code \o PagesCode(Tail(ps))

AllCode == PagesCode(pages) \o code

IsText(c) == c.op = "drawString"
IsPlaced(c) == c.kind \in {"heading", "body"}
IsHeading(c) == c.kind = "heading"

TextDraws == SelectSeq(AllCode, IsText)
Placed == SelectSeq(AllCode, IsPlaced)
HeadingDraws == SelectSeq(AllCode, IsHeading)

IsPrefix(s, t) == Len(s) <= Len(t) /\ \A i \in 1..Len(s) : s[i] = t[i]

\* number of headings among the first i commands
HeadingsUpTo(i) == Cardinality({j \in 1..i : AllCode[j].kind = "heading"})

\* the render has drawn everything and saved
Rendered == saves = 1

SevenHeadings == <<"CIRCUIT OVERVIEW", "BUTTON INPUT CIRCUIT", "LED OUTPUT CIRCUIT",
                   "COMPONENT VALUES", "CIRCUIT ANALYSIS", "VALIDATION STATUS",
                   "NEXT STEPS">>
BodyCounts == <<11, 10, 11, 10, 12, 5, 4>>

\* C1: in one call the seven headings are drawn once each, in the fixed
\* order, and no other heading is drawn; every body line is drawn after the
\* heading of its own section and before the heading of the next one.
C1_HeadingsOnceInOrder ==
    /\ IsPrefix([i \in 1..Len(HeadingDraws) |-> HeadingDraws[i].text], SevenHeadings)
    /\ Rendered => Len(HeadingDraws) = 7
    /\ \A i \in 1..Len(AllCode) :
         AllCode[i].kind = "body" =>
           /\ HeadingsUpTo(i) = AllCode[i].sec
           /\ AllCode[i].sec \in 1..7
           /\ AllCode[i].idx \in 1..BodyCounts[AllCode[i].sec]
           /\ AllCode[i].text = Sections[AllCode[i].sec].lines[AllCode[i].idx]
    /\ Rendered => \A k \in 1..7 :
         Cardinality({i \in 1..Len(AllCode) :
             AllCode[i].kind = "body" /\ AllCode[i].sec = k}) = BodyCounts[k]

C1_Witness ==
    /\ Rendered
    /\ Len(HeadingDraws) = 7
    /\ AllCode[Len(AllCode) - 2].kind = "body"

\* C2: a text line is drawn in green (0, 0.5, 0) exactly when it is a body
\* line of the Validation Status section; every other text is drawn in
\* black, and the fill colour is black again from the end of that section's
\* loop on.
C2_ColourIsolation ==
    /\ \A i \in 1..Len(TextDraws) :
         LET c == TextDraws[i] IN
           /\ c.fill = <<0, 5, 0>> <=>
                (c.kind = "body" /\ SevenHeadings[c.sec] = "VALIDATION STATUS")
           /\ c.fill # <<0, 5, 0>> => c.fill = <<0, 0, 0>>
    /\ ((sec = 7 /\ pc \in {"heading", "begin_body", "body"})
          \/ pc \in {"footer", "save", "print"}) => fill = <<0, 0, 0>>

C2_Witness ==
    /\ pc = "save"
    /\ \E i \in 1..Len(TextDraws) : TextDraws[i].fill = <<0, 5, 0>>
    /\ TextDraws[Len(TextDraws)].kind = "footer"

\* C3: body lines of the two diagram sections are drawn in Courier 10, body
\* lines of the other five in Helvetica 10, all headings in Helvetica-Bold
\* 14; no body line is drawn in the font the heading left behind.
C3_FontAtEachDraw ==
    \A i \in 1..Len(TextDraws) :
      LET c == TextDraws[i] IN
        /\ c.kind = "heading" => c.font = [name |-> "Helvetica-Bold", size |-> 14]
        /\ c.kind = "body" =>
             IF SevenHeadings[c.sec] \in {"BUTTON INPUT CIRCUIT", "LED OUTPUT CIRCUIT"}
             THEN c.font = [name |-> "Courier", size |-> 10]
             ELSE c.font = [name |-> "Helvetica", size |-> 10]

C3_Witness ==
    /\ pc = "save"
    /\ \E i \in 1..Len(TextDraws) : TextDraws[i].font.name = "Courier"
    /\ Len(HeadingDraws) = 7

\* C4: a successful call writes exactly one page of A4 size: no page is
\* ended before save, save completes once, and the document written to
\* filename has one page, 210 mm x 297 mm, ending with "Page 1 of 1".
C4_OnePageA4 ==
    /\ saves <= 1
    /\ saves = 0 => pages = <<>>
    /\ saves = 1 =>
         /\ fs[filename] = pages
         /\ Len(fs[filename]) = 1
         /\ fs[filename][1].size = <<21000, 29700>>
         /\ LET cmds == fs[filename][1].code IN
              cmds # <<>> /\ cmds[Len(cmds)].text = "Page 1 of 1"

C4_Witness == pc = "idle" /\ saves = 1 /\ Len(fs[filename]) = 1

\* C5: a call that writes to a path an earlier call wrote to writes the
\* same document: the same drawing commands with the same strings,
\* positions, fonts and fill colours.
C5_Deterministic ==
    [][\A p \in Paths : (fs[p] # NoFile /\ fs'[p] # NoFile) => fs'[p] = fs[p]]_vars

C5_Witness ==
    /\ Len(stdout) = 2
    /\ stdout[1] = stdout[2]
    /\ calls = 2 /\ saves = 1

\* C6: when canvas creation or save raises, the call ends without printing;
\* the confirmation line is printed at most once per call, only after save
\* has completed, and names the path.
C6_FailurePropagation ==
    /\ prints <= 1
    /\ prints = 1 => saves = 1
    /\ pc = "raised" => prints = 0 /\ saves = 0
    /\ prints = 1 => stdout[Len(stdout)] = "PDF created: " \o filename
    /\ Len(stdout) <= calls

C6_Witness == pc = "raised" /\ code # <<>> /\ prints = 0

\* rank of the phase a command belongs to
PhaseRank(c) ==
    CASE c.kind = "title" -> 1
      [] c.kind = "subtitle" -> 2
      [] c.kind = "divider" -> 3
      [] c.kind \in {"heading", "body"} -> 4
      [] c.kind = "footer" -> 5

CountKind(k) == Cardinality({i \in 1..Len(AllCode) : AllCode[i].kind = k})

\* what a phase of rank r consists of, once complete
PhaseComplete(r) ==
    CASE r = 1 -> CountKind("title") = 1
      [] r = 2 -> CountKind("subtitle") = 2
      [] r = 3 -> CountKind("divider") = 1
      [] r = 4 -> CountKind("heading") = 7 /\ CountKind("body") = 63
      [] r = 5 -> CountKind("footer") = 2

\* C7: the title is drawn first, then the two subtitles, the divider, the
\* seven sections, the two footer strings (at x = 1 inch and x = width - 2.5
\* inch, y = 0.5 inch), then save, then the confirmation print; every phase
\* happens once and nothing is drawn after save.
C7_PhaseOrder ==
    /\ \A i \in 1..Len(AllCode) :
         /\ i > 1 => PhaseRank(AllCode[i - 1]) <= PhaseRank(AllCode[i])
         /\ i = 1 => PhaseRank(AllCode[i]) = 1
    /\ \A i \in 2..Len(AllCode) :
         PhaseRank(AllCode[i - 1]) < PhaseRank(AllCode[i]) =>
           /\ PhaseRank(AllCode[i]) = PhaseRank(AllCode[i - 1]) + 1
           /\ PhaseComplete(PhaseRank(AllCode[i - 1]))
    /\ CountKind("title") <= 1 /\ CountKind("subtitle") <= 2
    /\ CountKind("divider") <= 1 /\ CountKind("footer") <= 2
    /\ \A i \in 1..Len(AllCode) :
         AllCode[i].kind = "footer" =>
           /\ AllCode[i].y = In(50)
           /\ AllCode[i].text = "Page 1 of 1" <=> AllCode[i].x = 21000 - In(250)
           /\ AllCode[i].text # "Page 1 of 1" => AllCode[i].x = In(100)
    /\ saves >= 1 => /\ saves = 1
                     /\ code = <<>>
                     /\ \A r \in 1..5 : PhaseComplete(r)
    /\ prints >= 1 => prints = 1 /\ saves = 1
    /\ pc = "print" => saves = 1 /\ prints = 0

C7_Witness == pc = "idle" /\ prints = 1 /\ saves = 1 /\ PhaseComplete(5)

ProseHeight == In(25)
DiagramHeight == In(20)
ClaimedLineHeight(k) ==
    IF SevenHeadings[k] \in {"BUTTON INPUT CIRCUIT", "LED OUTPUT CIRCUIT"}
    THEN DiagramHeight ELSE ProseHeight

\* C8: the first heading is at height - 2.2 inch; a heading is followed 0.4
\* inch lower by its first body line; each body line is followed one line
\* height lower (0.25 inch prose, 0.2 inch diagram), plus 0.3 inch when a
\* heading follows; so consecutive cursor-placed draws descend by at least
\* 0.2 inch, and heading k+1 is 0.4 + n_k * lineheight_k + 0.3 inch below
\* heading k.
C8_CursorArithmetic ==
    /\ Placed # <<>> => Placed[1].kind = "heading" /\ Placed[1].y = 29700 - In(220)
    /\ \A i \in 1..(Len(Placed) - 1) :
         LET a == Placed[i]
             b == Placed[i + 1]
             d == a.y - b.y
         IN /\ d >= In(20)
            /\ (a.kind = "heading" /\ b.kind = "body") => d = In(40)
            /\ (a.kind = "body" /\ b.kind = "body") => d = ClaimedLineHeight(a.sec)
            /\ (a.kind = "body" /\ b.kind = "heading") =>
                  d = ClaimedLineHeight(a.sec) + In(30)
            /\ ~(a.kind = "heading" /\ b.kind = "heading")
    /\ \A k \in 1..(Len(HeadingDraws) - 1) :
         HeadingDraws[k + 1].y =
           HeadingDraws[k].y - In(40) - BodyCounts[k] * ClaimedLineHeight(k) - In(30)
    /\ (pc = "body" /\ idx > 1) =>
         y = Placed[Len(Placed)].y - ClaimedLineHeight(sec)
    /\ pc = "begin_body" => y = Placed[Len(Placed)].y

C8_Witness == pc = "footer" /\ Len(HeadingDraws) = 7 /\ Len(Placed) = 70

\* C9: over all text draws of one render, each draw is no higher on the
\* page than the draw before it.
C9_TopToBottom ==
    \A i \in 1..(Len(TextDraws) - 1) : TextDraws[i + 1].y <= TextDraws[i].y

\* C10: every heading and body line placed by the cursor lies inside the
\* page and above the footer baseline: 0.5 inch < y <= height.
C10_InsidePage ==
    \A i \in 1..Len(Placed) : In(50) < Placed[i].y /\ Placed[i].y <= 29700

====
